---- MODULE Spec2Model ----
(***************************************************************************)
(* RMV MCP server: the RMVService class (rmv_service.py, and its copy in   *)
(* demo.py) and the two tool facades (rmv_stdio.py, demo.py).              *)
(*                                                                         *)
(* JSON values: a dict is a function from key strings, a list a sequence,  *)
(* a scalar a record [t, v] (t in "str", "num", "none"; v its text).       *)
(* Python strings are TLA+ strings, so str(), f-strings and prefixes are   *)
(* computed on the characters.  One asyncio event loop runs the calls: an  *)
(* action is the code between two awaits (or two function boundaries).     *)
(***************************************************************************)
EXTENDS Integers, Sequences, FiniteSets, TLC

\* ------------------------------------------------------------------ bounds
NumCalls == 2   \* concurrent tool invocations (call slots)
MaxLocs == 3    \* entries in a stopLocationOrCoordLocation list
MaxTrips == 2   \* entries in a Trip list
MaxLegs == 3    \* entries in a LegList.Leg list

Calls == 1..NumCalls

Seqs(S, n) == UNION {[1..k -> S] : k \in 0..n}

\* ------------------------------------------------------- Python values
EmptyDict == <<>>
EmptyList == <<>>
None == [t |-> "none", v |-> "None"]
Str(s) == [t |-> "str", v |-> s]
Num(s) == [t |-> "num", v |-> s]

\* dict.get(k, default); dict.get(k) is Get(d, k, None)
Get(d, k, default) == IF k \in DOMAIN d THEN d[k] ELSE default

\* "k in d"
Has(d, k) == k \in DOMAIN d

\* bool(x) of a list: a non-empty list is truthy
Truthy(list) == Len(list) > 0

RECURSIVE Join(_)
Join(strs) ==
    IF Len(strs) = 0 THEN ""
    ELSE IF Len(strs) = 1 THEN strs[1]
    ELSE strs[1] \o ", " \o Join(Tail(strs))

\* repr() of a scalar, as str() of the enclosing dict prints it
Repr(x) == IF x.t = "str" THEN "'" \o x.v \o "'" ELSE x.v

ReprList(xs) == "[" \o Join([k \in 1..Len(xs) |-> Repr(xs[k])]) \o "]"

StartsWith(s, p) == Len(s) >= Len(p) /\ SubSeq(s, 1, Len(p)) = p

Contains(s, m) ==
    \E k \in 1..(Len(s) - Len(m) + 1) : SubSeq(s, k, k + Len(m) - 1) = m

\* ------------------------------------------------------- configuration
ApiBase == "https://www.rmv.de/hapi"
Placeholder == "did you set the RMV_API_KEY environment variable?"

\* os.getenv(name, default): env is [set, value]
GetEnv(env, default) == IF env.set THEN env.value ELSE default

\* api_key or os.getenv("RMV_API_KEY", placeholder): "" is falsy (faulty variant:
\* the environment wins over the constructor argument)
ResolveKeyEnvFirst(arg, env) == IF env.set THEN env.value ELSE arg

ResolveKey(arg, env) == IF arg # "" THEN arg ELSE GetEnv(env, Placeholder)

Envs == {[set |-> FALSE, value |-> ""],
         [set |-> TRUE, value |-> ""],
         [set |-> TRUE, value |-> "env-key"]}

\* How the service object is built: by a facade module (the argument is
\* itself os.getenv(...)), or directly with an explicit or default argument.
Variants == {"stdio", "demo"}

CtorArgs(env) == {"", "arg-key", GetEnv(env, Placeholder)}

\* ------------------------------------------------- upstream responses
\* What client.get / raise_for_status / response.json() can end in: a decoded
\* body, or an exception (its httpx or json class name and its message; the
\* message of an httpx timeout may be empty).
Ok(body) == [exc |-> "none", msg |-> "", body |-> body]
Failure(exc, msg) == [exc |-> exc, msg |-> msg, body |-> EmptyDict]
Unsent == [exc |-> "unsent", msg |-> "", body |-> EmptyDict]
Pending == [exc |-> "pending", msg |-> "", body |-> EmptyDict]

TransportFailures ==
    {Failure("HTTPStatusError", "Client error '401 Unauthorized'"),
     Failure("ConnectError", "All connection attempts failed"),
     Failure("ReadTimeout", "The read operation timed out"),
     Failure("ConnectTimeout", "")}

DecodeFailures == {Failure("JSONDecodeError", "Expecting value")}

StopA == [StopLocation |->
            [extId |-> Str("3004736"), name |-> Str("Bad Vilbel-Dortelweil Bf"),
             lat |-> Num("50.19"), lon |-> Num("8.74"),
             productAtStop |-> <<Str("S"), Str("Bus")>>]]
StopB == [StopLocation |-> [name |-> Str("Frankfurt Hbf")]]
CoordC == [CoordLocation |-> [name |-> Str("Dortelweiler Platz")]]

LocEntries == {StopA, StopB, CoordC}

LegA == [type |-> Str("JNY"), name |-> Str("S6"), direction |-> Str("Frankfurt"),
         Origin |-> [name |-> Str("Dortelweil"), time |-> Str("08:15:00"),
                     track |-> Str("1")],
         Destination |-> [name |-> Str("Frankfurt West"), time |-> Str("08:30:00")]]
LegB == [type |-> Str("WALK"),
         Destination |-> [name |-> Str("Messe"), time |-> Str("08:40:00")]]

LegEntries == {LegA, LegB}

TripOf(legs) == [LegList |-> [Leg |-> legs], duration |-> Str("PT25M"),
                 chg |-> Num("1")]

TripEntries(maxLegs) ==
    {EmptyDict} \cup {TripOf(legs) : legs \in Seqs(LegEntries, maxLegs)}

\* Bodies without the container key, with and without an "error" key
ErrorBody == [error |-> "quota exceeded"]
HafasErrorBody == [errorCode |-> "API_AUTH", errorText |-> "access denied"]

\* Every station-search body up to MaxLocs entries, and the few bodies the
\* concurrent specification draws from
RichStationBodies ==
    {EmptyDict, HafasErrorBody, ErrorBody,
     [error |-> "partial", stopLocationOrCoordLocation |-> <<StopA>>]}
    \cup {[stopLocationOrCoordLocation |-> locs] :
              locs \in Seqs(LocEntries, MaxLocs)}

FewStationBodies ==
    {HafasErrorBody, [stopLocationOrCoordLocation |-> <<CoordC, StopB>>]}

\* Every first trip of up to MaxLegs legs, followed by up to MaxTrips - 1
\* other trips: without legs, with an empty leg list, with other endpoints
OtherTrips == {EmptyDict, TripOf(EmptyList), TripOf(<<LegB, LegA>>)}

TripLists ==
    {EmptyList}
    \cup {<<first>> \o rest : first \in TripEntries(MaxLegs),
                              rest \in Seqs(OtherTrips, MaxTrips - 1)}

RichTripBodies ==
    {EmptyDict, HafasErrorBody, ErrorBody,
     [error |-> "partial", Trip |-> <<TripOf(<<LegA>>)>>]}
    \cup {[Trip |-> trips] : trips \in TripLists}

FewTripBodies == {[Trip |-> <<TripOf(<<LegA, LegB>>)>>]}

RichFailures == TransportFailures \cup DecodeFailures
FewFailures == {Failure("ConnectError", "All connection attempts failed")}

RichStationOutcomes == RichFailures \cup {Ok(b) : b \in RichStationBodies}
RichTripOutcomes == RichFailures \cup {Ok(b) : b \in RichTripBodies}
FewStationOutcomes == FewFailures \cup {Ok(b) : b \in FewStationBodies}
FewTripOutcomes == FewFailures \cup {Ok(b) : b \in FewTripBodies}

Outcomes(endpoint, rich) ==
    IF endpoint = "trip"
    THEN (IF rich THEN RichTripOutcomes ELSE FewTripOutcomes)
    ELSE (IF rich THEN RichStationOutcomes ELSE FewStationOutcomes)

\* ------------------------------------------------------- tool arguments
SearchArgs(rich) ==
    {[query |-> q, max_results |-> m] :
        q \in (IF rich THEN {"Dortweil"} ELSE {"Dortweil", "Hbf"}),
        m \in (IF rich THEN {1, 10} ELSE {10})}

ConnArgs(rich) ==
    {[origin_id |-> "3004736", destination_id |-> d, num_trips |-> 3,
      departure_time |-> t] :
        d \in (IF rich THEN {"3000010"} ELSE {"3000010", "3000912"}),
        t \in (IF rich THEN {None, Str(""), Str("08:15")} ELSE {None})}

\* A caller of the public rmv_api_call that already put accessId and format
ApiArgs == {[endpoint |-> "location.name",
             params |-> [input |-> "Hbf", accessId |-> "caller-id",
                         format |-> "xml"]]}

NoArgs == EmptyDict

\* datetime.now() as strftime("%Y-%m-%d") and strftime("%H:%M") print it
Clocks(rich) ==
    IF rich THEN {[date |-> "2025-01-31", time |-> "23:59"],
                  [date |-> "2025-02-01", time |-> "00:00"]}
    ELSE {[date |-> "2025-02-01", time |-> "00:00"]}

\* ------------------------------------------------------ upstream client
\* except httpx.HTTPError: the httpx classes below derive from HTTPError
\* (TimeoutException < TransportError < RequestError < HTTPError); faulty variant:
\* a timeout handled as its own category
IsHTTPErrorNoTimeout(exc) == exc \in {"HTTPStatusError", "ConnectError"}

IsHTTPError(exc) ==
    exc \in {"HTTPStatusError", "ConnectError", "ReadTimeout", "ConnectTimeout"}

\* params["accessId"] = self.api_key; params["format"] = "json"
InjectParams(p, key) ==
    [k \in DOMAIN p \cup {"accessId", "format"} |->
        IF k = "accessId" THEN key
        ELSE IF k = "format" THEN "json"
        ELSE p[k]]

\* f"{self.api_base}/{endpoint}"
Url(base, endpoint) == base \o "/" \o endpoint

\* What rmv_api_call returns for an outcome of the GET
ApiResult(o) ==
    IF o.exc = "none" THEN o.body
    ELSE IF IsHTTPError(o.exc) THEN [error |-> "API request failed: " \o o.msg]
    ELSE [error |-> "Unexpected error: " \o o.msg]

\* ------------------------------------------------------------ outcomes
Return(s) == [kind |-> "return", value |-> s]
Raise(e) == [kind |-> "raise", value |-> e]
NoRet == [kind |-> "none", value |-> ""]
Outcome(r, m) == [ret |-> r, mapping |-> m]

\* if "error" in result (faulty variant: the check looks for another key)
IsErrorResultWrongKey(result) == Has(result, "errors")

IsErrorResult(result) == Has(result, "error")

ErrorString(result) == "Error: " \o result["error"]

NoStationsFound == "No stations found"
NoConnectionsFound == "No connections found"

\* ------------------------------------------------ station search projector
StationRecord(stop) ==
    [id |-> Get(stop, "extId", None),
     name |-> Get(stop, "name", None),
     latitude |-> Get(stop, "lat", None),
     longitude |-> Get(stop, "lon", None),
     products |-> Get(stop, "productAtStop", EmptyList)]

\* One pass of "for loc in locations" (faulty variant: no StopLocation test, the
\* record is built from loc.get("StopLocation", {}))
AppendStationNoSkip(stations, loc) ==
    Append(stations, StationRecord(Get(loc, "StopLocation", EmptyDict)))

AppendStation(stations, loc) ==
    IF Has(loc, "StopLocation")
    THEN Append(stations, StationRecord(loc["StopLocation"]))
    ELSE stations

RECURSIVE StationLoop(_, _)
StationLoop(locations, stations) ==
    IF Len(locations) = 0 THEN stations
    ELSE StationLoop(Tail(locations), AppendStation(stations, Head(locations)))

ReprStation(s) ==
    "{'id': " \o Repr(s.id) \o ", 'name': " \o Repr(s.name)
    \o ", 'latitude': " \o Repr(s.latitude)
    \o ", 'longitude': " \o Repr(s.longitude)
    \o ", 'products': " \o ReprList(s.products) \o "}"

\* str({"stations": stations, "count": len(stations)})
StrStations(m) ==
    "{'stations': ["
    \o Join([k \in 1..Len(m.stations) |-> ReprStation(m.stations[k])])
    \o "], 'count': " \o ToString(m.count) \o "}"

\* search_stations after the await of rmv_api_call
SearchStationsOutcome(result) ==
    IF IsErrorResult(result) THEN Outcome(Return(ErrorString(result)), EmptyDict)
    ELSE IF ~Has(result, "stopLocationOrCoordLocation")
    THEN Outcome(Return(NoStationsFound), EmptyDict)
    ELSE LET locations == Get(result, "stopLocationOrCoordLocation", EmptyList)
             stations == StationLoop(locations, EmptyList)
             m == [stations |-> stations, count |-> Len(stations)]
         IN Outcome(Return(StrStations(m)), m)

\* ------------------------------------------- connection search projector
LegInfo(leg) ==
    [type |-> Get(leg, "type", None),
     name |-> Get(leg, "name", None),
     direction |-> Get(leg, "direction", None),
     origin |-> Get(Get(leg, "Origin", EmptyDict), "name", None),
     destination |-> Get(Get(leg, "Destination", EmptyDict), "name", None),
     departure |-> Get(Get(leg, "Origin", EmptyDict), "time", None),
     arrival |-> Get(Get(leg, "Destination", EmptyDict), "time", None),
     platform |-> Get(Get(leg, "Origin", EmptyDict), "track", None)]

RECURSIVE LegLoop(_, _)
LegLoop(legs, acc) ==
    IF Len(legs) = 0 THEN acc
    ELSE LegLoop(Tail(legs), Append(acc, LegInfo(Head(legs))))

TripInfo(trip) ==
    [duration |-> Get(trip, "duration", None),
     transfers |-> Get(trip, "chg", Num("0")),
     legs |-> LegLoop(Get(Get(trip, "LegList", EmptyDict), "Leg", EmptyList),
                      EmptyList)]

RECURSIVE TripLoop(_, _)
TripLoop(trips, acc) ==
    IF Len(trips) = 0 THEN acc
    ELSE TripLoop(Tail(trips), Append(acc, TripInfo(Head(trips))))

\* A subscripted expression: its value, or the IndexError of list[k] on a
\* list too short
Value(v) == [raised |-> FALSE, value |-> v]
IndexError == [raised |-> TRUE, value |-> None]

\* list[-1] (faulty variant: list[0])
LastOfIsFirst(list) == list[1]

LastOf(list) == list[Len(list)]

FirstOf(list) == list[1]

\* The trip whose legs give the top-level names: result.get("Trip", [{}])[0]
NamingTrip(trips) == trips[1]

\* result.get("Trip", [{}])[0].get("LegList", {}).get("Leg", [{}])[0]
\*     .get("Origin", {}).get("name")
OriginExpr(result) ==
    LET trips == Get(result, "Trip", <<EmptyDict>>)
    IN IF Len(trips) = 0 THEN IndexError
       ELSE LET legs == Get(Get(NamingTrip(trips), "LegList", EmptyDict),
                            "Leg", <<EmptyDict>>)
            IN IF Len(legs) = 0 THEN IndexError
               ELSE Value(Get(Get(FirstOf(legs), "Origin", EmptyDict),
                              "name", None))

\* (... .get("Leg", [{}])[-1].get("Destination", {}).get("name"))
\*     if result.get("Trip") else None
DestinationExpr(result) ==
    IF Has(result, "Trip") /\ Truthy(result["Trip"])
    THEN LET trips == Get(result, "Trip", <<EmptyDict>>)
             legs == Get(Get(NamingTrip(trips), "LegList", EmptyDict),
                         "Leg", <<EmptyDict>>)
         IN IF Len(legs) = 0 THEN IndexError
            ELSE Value(Get(Get(LastOf(legs), "Destination", EmptyDict),
                           "name", None))
    ELSE Value(None)

ReprLeg(l) ==
    "{'type': " \o Repr(l.type) \o ", 'name': " \o Repr(l.name)
    \o ", 'direction': " \o Repr(l.direction)
    \o ", 'origin': " \o Repr(l.origin)
    \o ", 'destination': " \o Repr(l.destination)
    \o ", 'departure': " \o Repr(l.departure)
    \o ", 'arrival': " \o Repr(l.arrival)
    \o ", 'platform': " \o Repr(l.platform) \o "}"

ReprTrip(t) ==
    "{'duration': " \o Repr(t.duration) \o ", 'transfers': " \o Repr(t.transfers)
    \o ", 'legs': [" \o Join([k \in 1..Len(t.legs) |-> ReprLeg(t.legs[k])])
    \o "]}"

\* str({"origin": ..., "destination": ..., "trips": trips, "count": len(trips)})
StrConnections(m) ==
    "{'origin': " \o Repr(m.origin) \o ", 'destination': " \o Repr(m.destination)
    \o ", 'trips': [" \o Join([k \in 1..Len(m.trips) |-> ReprTrip(m.trips[k])])
    \o "], 'count': " \o ToString(m.count) \o "}"

\* get_connections after the await of rmv_api_call; the dict display
\* evaluates the origin expression before the destination expression
ConnectionsOutcome(result) ==
    IF IsErrorResult(result) THEN Outcome(Return(ErrorString(result)), EmptyDict)
    ELSE IF ~Has(result, "Trip")
    THEN Outcome(Return(NoConnectionsFound), EmptyDict)
    ELSE LET trips == TripLoop(Get(result, "Trip", EmptyList), EmptyList)
             o == OriginExpr(result)
             d == DestinationExpr(result)
             m == [origin |-> o.value, destination |-> d.value,
                   trips |-> trips, count |-> Len(trips)]
         IN IF o.raised \/ d.raised
            THEN Outcome(Raise("IndexError"), EmptyDict)
            ELSE Outcome(Return(StrConnections(m)), m)

\* ---------------------------------------------------------------- state
VARIABLES
    variant,   \* which module hosts the tools: "stdio" (rmv_stdio.py with
               \* rmv_service.py) or "demo" (demo.py)
    env,       \* the environment variable RMV_API_KEY: [set, value]
    ctorArg,   \* the api_key argument RMVService was constructed with
    api_base,  \* self.api_base
    api_key,   \* self.api_key
    pc,        \* per call: idle, tool, service, awaiting, received, done
    op,        \* per call: the operation invoked
    args,      \* per call: its arguments
    ctx,       \* per call: whether a call context was supplied
    params,    \* per call: the local params dict
    request,   \* per call: the GET handed to httpx
    gets,      \* per call: how many GETs were issued
    upstream,  \* per call: how the GET ended
    result,    \* per call: what rmv_api_call returned
    mapping,   \* per call: the dict the projector built before str()
    ret,       \* per call: how the invocation ended
    notes      \* per call: the ctx.info notifications emitted

config == <<variant, env, ctorArg, api_base, api_key>>
vars == <<variant, env, ctorArg, api_base, api_key, pc, op, args, ctx, params,
          request, gets, upstream, result, mapping, ret, notes>>

NoRequest == [url |-> "", endpoint |-> "", params |-> EmptyDict]

IdleCalls ==
    /\ pc = [i \in Calls |-> "idle"]
    /\ op = [i \in Calls |-> "none"]
    /\ args = [i \in Calls |-> NoArgs]
    /\ ctx = [i \in Calls |-> FALSE]
    /\ params = [i \in Calls |-> EmptyDict]
    /\ request = [i \in Calls |-> NoRequest]
    /\ gets = [i \in Calls |-> 0]
    /\ upstream = [i \in Calls |-> Unsent]
    /\ result = [i \in Calls |-> EmptyDict]
    /\ mapping = [i \in Calls |-> EmptyDict]
    /\ ret = [i \in Calls |-> NoRet]
    /\ notes = [i \in Calls |-> EmptyList]

\* RMVService.__init__
Construct(v, e, arg) ==
    /\ variant = v
    /\ env = e
    /\ ctorArg = arg
    /\ api_base = ApiBase
    /\ api_key = ResolveKey(arg, e)

\* The state after construction, for any environment and any argument
Init ==
    /\ \E v \in Variants, e \in Envs : \E arg \in CtorArgs(e) : Construct(v, e, arg)
    /\ IdleCalls

\* The state after a facade module was loaded with the key set
InitConc ==
    /\ \E v \in Variants :
          LET e == [set |-> TRUE, value |-> "env-key"]
          IN Construct(v, e, GetEnv(e, Placeholder))
    /\ IdleCalls

\* -------------------------------------------------------------- actions
\* A client invokes a tool (or another caller the public rmv_api_call)
Invoke(i, rich) ==
    /\ pc[i] = "idle"
    /\ \E o \in (IF rich THEN {"search_stations", "get_connections", "rmv_api_call"}
                 ELSE {"search_stations", "get_connections"}) :
         /\ op' = [op EXCEPT ![i] = o]
         /\ \E a \in (CASE o = "search_stations" -> SearchArgs(rich)
                        [] o = "get_connections" -> ConnArgs(rich)
                        [] OTHER -> ApiArgs) :
                args' = [args EXCEPT ![i] = a]
         /\ \E c \in (IF o = "rmv_api_call" THEN {FALSE} ELSE BOOLEAN) :
                ctx' = [ctx EXCEPT ![i] = c]
         /\ pc' = [pc EXCEPT ![i] = IF o = "rmv_api_call" THEN "service" ELSE "tool"]
    /\ UNCHANGED <<config, params, request, gets, upstream, result, mapping,
                   ret, notes>>

\* The search_stations tool: if ctx: await ctx.info(...); then the service
ToolSearchStations(i) ==
    /\ pc[i] = "tool" /\ op[i] = "search_stations"
    /\ notes' = [notes EXCEPT ![i] =
                    IF ctx[i]
                    THEN Append(@, "Searching station " \o args[i].query \o "...")
                    ELSE @]
    /\ pc' = [pc EXCEPT ![i] = "service"]
    /\ UNCHANGED <<config, op, args, ctx, params, request, gets, upstream,
                   result, mapping, ret>>

\* The get_connections tool
ToolGetConnections(i) ==
    /\ pc[i] = "tool" /\ op[i] = "get_connections"
    /\ notes' = [notes EXCEPT ![i] =
                    IF ctx[i]
                    THEN Append(@, "Searching Connection from "
                                   \o args[i].origin_id \o " to "
                                   \o args[i].destination_id \o "...")
                    ELSE @]
    /\ pc' = [pc EXCEPT ![i] = "service"]
    /\ UNCHANGED <<config, op, args, ctx, params, request, gets, upstream,
                   result, mapping, ret>>

\* rmv_api_call up to the await of client.get (faulty variant: the assignment is
\* written the wrong way round, self.api_key = params.get("accessId"))
RmvApiCallSendClobbers(i, endpoint, p) ==
    /\ params' = [params EXCEPT ![i] = InjectParams(p, api_key)]
    /\ request' = [request EXCEPT ![i] =
                      [url |-> Url(api_base, endpoint), endpoint |-> endpoint,
                       params |-> InjectParams(p, api_key)]]
    /\ gets' = [gets EXCEPT ![i] = @ + 1]
    /\ upstream' = [upstream EXCEPT ![i] = Pending]
    /\ pc' = [pc EXCEPT ![i] = "awaiting"]
    /\ api_key' = Get(p, "accessId", "None")
    /\ UNCHANGED <<variant, env, ctorArg, api_base>>

RmvApiCallSend(i, endpoint, p) ==
    /\ params' = [params EXCEPT ![i] = InjectParams(p, api_key)]
    /\ request' = [request EXCEPT ![i] =
                      [url |-> Url(api_base, endpoint), endpoint |-> endpoint,
                       params |-> params'[i]]]
    /\ gets' = [gets EXCEPT ![i] = @ + 1]
    /\ upstream' = [upstream EXCEPT ![i] = Pending]
    /\ pc' = [pc EXCEPT ![i] = "awaiting"]
    /\ UNCHANGED config

StationParams(a) == [input |-> a.query, maxNo |-> a.max_results, type |-> "S"]

\* departure_time or now.strftime("%H:%M")
TimeParam(dt, now) == IF dt.t = "none" \/ dt.v = "" THEN now.time ELSE dt.v

ConnectionParams(a, now) ==
    [originExtId |-> a.origin_id, destExtId |-> a.destination_id,
     date |-> now.date, time |-> TimeParam(a.departure_time, now),
     numTrips |-> a.num_trips, searchForArrival |-> 0]

\* RMVService.search_stations up to the await of the GET.  demo.py's copy
\* first awaits ctx.info(...) on whatever ctx it was given: None has no info.
ServiceSearchStations(i) ==
    /\ pc[i] = "service" /\ op[i] = "search_stations"
    /\ IF variant = "demo" /\ ~ctx[i]
       THEN /\ params' = [params EXCEPT ![i] = StationParams(args[i])]
            /\ ret' = [ret EXCEPT ![i] = Raise("AttributeError")]
            /\ pc' = [pc EXCEPT ![i] = "done"]
            /\ UNCHANGED <<config, request, gets, upstream, notes>>
       ELSE /\ RmvApiCallSend(i, "location.name", StationParams(args[i]))
            /\ notes' = [notes EXCEPT ![i] =
                            IF variant = "demo"
                            THEN Append(@, "Searching Station " \o args[i].query
                                           \o " with max results "
                                           \o ToString(args[i].max_results))
                            ELSE @]
            /\ UNCHANGED ret
    /\ UNCHANGED <<op, args, ctx, result, mapping>>

\* RMVService.get_connections up to the await of the GET
ServiceGetConnections(i, rich) ==
    /\ pc[i] = "service" /\ op[i] = "get_connections"
    /\ \E now \in Clocks(rich) :
          RmvApiCallSend(i, "trip", ConnectionParams(args[i], now))
    /\ UNCHANGED <<op, args, ctx, result, mapping, ret, notes>>

\* A direct call of rmv_api_call up to the await of the GET
CallerApiCall(i) ==
    /\ pc[i] = "service" /\ op[i] = "rmv_api_call"
    /\ RmvApiCallSend(i, args[i].endpoint, args[i].params)
    /\ UNCHANGED <<op, args, ctx, result, mapping, ret, notes>>

\* rmv_api_call from the end of the GET to its return (faulty variant: a failed GET
\* is sent once more)
RmvApiCallCompleteRetry(i, o) ==
    /\ upstream' = [upstream EXCEPT ![i] = o]
    /\ IF o.exc # "none" /\ gets[i] < 2
       THEN /\ gets' = [gets EXCEPT ![i] = @ + 1]
            /\ UNCHANGED <<result, pc>>
       ELSE /\ result' = [result EXCEPT ![i] = ApiResult(o)]
            /\ pc' = [pc EXCEPT ![i] = "received"]
            /\ UNCHANGED gets

RmvApiCallComplete(i, o) ==
    /\ upstream' = [upstream EXCEPT ![i] = o]
    /\ result' = [result EXCEPT ![i] = ApiResult(o)]
    /\ pc' = [pc EXCEPT ![i] = "received"]
    /\ UNCHANGED gets

\* The GET of call i ends: a body, an HTTP failure, or a body that is no JSON
HttpComplete(i, rich) ==
    /\ pc[i] = "awaiting"
    /\ \E o \in Outcomes(request[i].endpoint, rich) : RmvApiCallComplete(i, o)
    /\ UNCHANGED <<config, op, args, ctx, params, request, mapping, ret, notes>>

\* search_stations from the return of rmv_api_call to its own return
ProjectStations(i) ==
    /\ pc[i] = "received" /\ op[i] = "search_stations"
    /\ LET out == SearchStationsOutcome(result[i])
       IN /\ ret' = [ret EXCEPT ![i] = out.ret]
          /\ mapping' = [mapping EXCEPT ![i] = out.mapping]
    /\ pc' = [pc EXCEPT ![i] = "done"]
    /\ UNCHANGED <<config, op, args, ctx, params, request, gets, upstream,
                   result, notes>>

\* get_connections from the return of rmv_api_call to its own return or raise
ProjectConnections(i) ==
    /\ pc[i] = "received" /\ op[i] = "get_connections"
    /\ LET out == ConnectionsOutcome(result[i])
       IN /\ ret' = [ret EXCEPT ![i] = out.ret]
          /\ mapping' = [mapping EXCEPT ![i] = out.mapping]
    /\ pc' = [pc EXCEPT ![i] = "done"]
    /\ UNCHANGED <<config, op, args, ctx, params, request, gets, upstream,
                   result, notes>>

\* The direct caller gets the dict of rmv_api_call
ReturnApiResult(i) ==
    /\ pc[i] = "received" /\ op[i] = "rmv_api_call"
    /\ ret' = [ret EXCEPT ![i] = [kind |-> "return_dict", value |-> ""]]
    /\ pc' = [pc EXCEPT ![i] = "done"]
    /\ UNCHANGED <<config, op, args, ctx, params, request, gets, upstream,
                   result, mapping, notes>>

\* The caller has the outcome; the locals of the call are gone
Complete(i) ==
    /\ pc[i] = "done"
    /\ pc' = [pc EXCEPT ![i] = "idle"]
    /\ op' = [op EXCEPT ![i] = "none"]
    /\ args' = [args EXCEPT ![i] = NoArgs]
    /\ ctx' = [ctx EXCEPT ![i] = FALSE]
    /\ params' = [params EXCEPT ![i] = EmptyDict]
    /\ request' = [request EXCEPT ![i] = NoRequest]
    /\ gets' = [gets EXCEPT ![i] = 0]
    /\ upstream' = [upstream EXCEPT ![i] = Unsent]
    /\ result' = [result EXCEPT ![i] = EmptyDict]
    /\ mapping' = [mapping EXCEPT ![i] = EmptyDict]
    /\ ret' = [ret EXCEPT ![i] = NoRet]
    /\ notes' = [notes EXCEPT ![i] = EmptyList]
    /\ UNCHANGED config

\* One caller at a time, every upstream response
Next ==
    \/ Invoke(1, TRUE)
    \/ ToolSearchStations(1)
    \/ ToolGetConnections(1)
    \/ ServiceSearchStations(1)
    \/ ServiceGetConnections(1, TRUE)
    \/ CallerApiCall(1)
    \/ HttpComplete(1, TRUE)
    \/ ProjectStations(1)
    \/ ProjectConnections(1)
    \/ ReturnApiResult(1)
    \/ Complete(1)

Spec == Init /\ [][Next]_vars

\* Concurrent tool invocations on the one service object
NextConc ==
    \E i \in Calls :
        \/ Invoke(i, FALSE)
        \/ ToolSearchStations(i)
        \/ ToolGetConnections(i)
        \/ ServiceSearchStations(i)
        \/ ServiceGetConnections(i, FALSE)
        \/ HttpComplete(i, FALSE)
        \/ ProjectStations(i)
        \/ ProjectConnections(i)
        \/ Complete(i)

SpecConc == InitConc /\ [][NextConc]_vars

\* --------------------------------------------------------------- claims
Done(i) == pc[i] = "done"
IsTool(i) == op[i] \in {"search_stations", "get_connections"}
Answered(i) == upstream[i].exc \notin {"unsent", "pending"}
Decoded(i) == upstream[i].exc = "none"
ContainerKey(o) ==
    IF o = "search_stations" THEN "stopLocationOrCoordLocation" ELSE "Trip"
Sentinel(o) ==
    IF o = "search_stations" THEN "No stations found" ELSE "No connections found"

\* C1: whatever the upstream call ended in, search_stations and
\* get_connections end by returning a string, never by raising.
C1_NoExceptionCrossesBoundary ==
    \A i \in Calls :
        (Done(i) /\ IsTool(i) /\ Answered(i)) => ret[i].kind = "return"

\* C2: for the upstream payload {"Trip": []}, get_connections returns the
\* sentinel "No connections found".
C2_EmptyTripListGivesSentinel ==
    \A i \in Calls :
        (/\ Done(i) /\ op[i] = "get_connections" /\ Decoded(i)
         /\ DOMAIN upstream[i].body = {"Trip"}
         /\ Len(upstream[i].body["Trip"]) = 0)
        => ret[i] = [kind |-> "return", value |-> "No connections found"]

\* C3: a tool call without ctx ends as the same call with a ctx ends, for
\* every upstream response the call gets or would get; only the
\* notifications differ.
C3_CtxAbsenceKeepsValue ==
    \A i, j \in Calls :
        (/\ Done(i) /\ Done(j) /\ IsTool(i)
         /\ op[i] = op[j] /\ args[i] = args[j]
         /\ ~ctx[i] /\ ctx[j]
         /\ (upstream[i].exc = "unsent" \/ upstream[i] = upstream[j]))
        => ret[i] = ret[j]

\* C4: an HTTP status failure, a connection failure and a timeout all make
\* rmv_api_call return {error: "API request failed: <message>"}, and the
\* tool return a string that starts with "Error: " and holds the message.
C4_TransportFailureIsErrorString ==
    \A i \in Calls :
        (/\ pc[i] \in {"received", "done"}
         /\ upstream[i].exc \in {"HTTPStatusError", "ConnectError", "ReadTimeout",
                                 "ConnectTimeout"})
        => /\ result[i] = [error |-> "API request failed: " \o upstream[i].msg]
           /\ (Done(i) /\ IsTool(i)) =>
                 /\ ret[i].kind = "return"
                 /\ StartsWith(ret[i].value, "Error: ")
                 /\ Contains(ret[i].value, upstream[i].msg)

C4_Witness ==
    \E i \in Calls :
        /\ Done(i) /\ op[i] = "get_connections"
        /\ upstream[i].exc = "ReadTimeout"
        /\ ret[i].value = "Error: API request failed: The read operation timed out"

StopIdx(locs) == {k \in 1..Len(locs) : "StopLocation" \in DOMAIN locs[k]}
Rank(locs, k) == Cardinality({j \in StopIdx(locs) : j <= k})

\* C5: of a station list with N entries that have StopLocation and M that
\* do not, search_stations keeps exactly the N, in their order, each with
\* the keys id, name, latitude, longitude, products; count is N.
C5_StationsKeepOrderAndSkip ==
    \A i \in Calls :
        (/\ Done(i) /\ op[i] = "search_stations" /\ Decoded(i)
         /\ "error" \notin DOMAIN upstream[i].body
         /\ "stopLocationOrCoordLocation" \in DOMAIN upstream[i].body)
        => LET locs == upstream[i].body["stopLocationOrCoordLocation"]
               n == Cardinality(StopIdx(locs))
               m == mapping[i]
           IN /\ ret[i].kind = "return"
              /\ DOMAIN m = {"stations", "count"}
              /\ m.count = n
              /\ Len(m.stations) = n
              /\ \A k \in StopIdx(locs) :
                    LET rec == m.stations[Rank(locs, k)]
                        stop == locs[k]["StopLocation"]
                    IN /\ DOMAIN rec = {"id", "name", "latitude", "longitude",
                                        "products"}
                       /\ rec.name = (IF "name" \in DOMAIN stop THEN stop["name"]
                                      ELSE None)
                       /\ rec.id = (IF "extId" \in DOMAIN stop THEN stop["extId"]
                                    ELSE None)
              /\ StartsWith(ret[i].value, "{'stations': [")
              /\ LET tail == "], 'count': " \o ToString(n) \o "}"
                     v == ret[i].value
                 IN /\ Len(v) >= Len(tail)
                    /\ SubSeq(v, Len(v) - Len(tail) + 1, Len(v)) = tail

C5_Witness ==
    \E i \in Calls :
        /\ Done(i) /\ op[i] = "search_stations" /\ Decoded(i)
        /\ DOMAIN upstream[i].body = {"stopLocationOrCoordLocation"}
        /\ upstream[i].body["stopLocationOrCoordLocation"] = <<StopB, CoordC, StopA>>
        /\ mapping[i].count = 2
        /\ mapping[i].stations[1].name = Str("Frankfurt Hbf")
        /\ mapping[i].stations[2].name = Str("Bad Vilbel-Dortelweil Bf")

LegsOf(trip) ==
    IF "LegList" \in DOMAIN trip /\ "Leg" \in DOMAIN trip["LegList"]
    THEN trip["LegList"]["Leg"] ELSE <<>>
NameOf(leg, end) ==
    IF end \in DOMAIN leg /\ "name" \in DOMAIN leg[end] THEN leg[end]["name"]
    ELSE None

\* C6: when there is a trip and the first trip has a leg, trips holds one
\* record per upstream trip in order, count is their number, origin is
\* Origin.name of the first trip's first leg and destination is
\* Destination.name of the first trip's last leg.
C6_EndpointsFromFirstTrip ==
    \A i \in Calls :
        (/\ Done(i) /\ op[i] = "get_connections" /\ Decoded(i)
         /\ "error" \notin DOMAIN upstream[i].body
         /\ "Trip" \in DOMAIN upstream[i].body
         /\ Len(upstream[i].body["Trip"]) >= 1
         /\ Len(LegsOf(upstream[i].body["Trip"][1])) >= 1)
        => LET trips == upstream[i].body["Trip"]
               legs == LegsOf(trips[1])
               m == mapping[i]
           IN /\ ret[i].kind = "return"
              /\ DOMAIN m = {"origin", "destination", "trips", "count"}
              /\ m.count = Len(trips)
              /\ Len(m.trips) = Len(trips)
              /\ \A k \in 1..Len(trips) :
                    /\ Len(m.trips[k].legs) = Len(LegsOf(trips[k]))
                    /\ \A l \in 1..Len(LegsOf(trips[k])) :
                          m.trips[k].legs[l].destination
                              = NameOf(LegsOf(trips[k])[l], "Destination")
              /\ m.origin = NameOf(legs[1], "Origin")
              /\ m.destination = NameOf(legs[Len(legs)], "Destination")

C6_Witness ==
    \E i \in Calls :
        /\ Done(i) /\ op[i] = "get_connections" /\ Decoded(i)
        /\ DOMAIN upstream[i].body = {"Trip"}
        /\ upstream[i].body["Trip"] = <<TripOf(<<LegA, LegB>>), TripOf(<<LegB, LegA>>)>>
        /\ mapping[i].count = 2
        /\ mapping[i].origin = Str("Dortelweil")
        /\ mapping[i].destination = Str("Messe")
        /\ mapping[i].trips[2].legs[2].destination = Str("Frankfurt West")

\* C7: a decoded response without "error" and without the container key
\* gives exactly the sentinel, and the sentinel is never the answer to a
\* result that carries "error".
C7_SentinelIffContainerMissing ==
    \A i \in Calls :
        (Done(i) /\ IsTool(i)) =>
            /\ (/\ Decoded(i)
                /\ "error" \notin DOMAIN upstream[i].body
                /\ ContainerKey(op[i]) \notin DOMAIN upstream[i].body)
               => ret[i] = [kind |-> "return", value |-> Sentinel(op[i])]
            /\ (ret[i].kind = "return" /\ ret[i].value = Sentinel(op[i]))
               => /\ "error" \notin DOMAIN result[i]
                  /\ ~StartsWith(ret[i].value, "Error: ")

C7_Witness ==
    \E i \in Calls :
        /\ Done(i) /\ op[i] = "get_connections" /\ Decoded(i)
        /\ "errorCode" \in DOMAIN upstream[i].body
        /\ ret[i] = [kind |-> "return", value |-> "No connections found"]

\* C8: a call issues at most one GET, none after a failure, and returns
\* only when that GET has ended.
C8_AtMostOneGetAwaited ==
    \A i \in Calls :
        /\ gets[i] <= 1
        /\ (Done(i) /\ ret[i].kind \in {"return", "return_dict"})
           => (gets[i] = 1 /\ Answered(i))
        /\ upstream[i].exc = "pending" => pc[i] = "awaiting"

C8_Witness ==
    \E i \in Calls :
        /\ Done(i) /\ op[i] = "search_stations"
        /\ upstream[i].exc = "ConnectError"
        /\ gets[i] = 1
        /\ ret[i].kind = "return"

SentOwnParams(i) ==
    gets[i] >= 1 =>
        LET p == request[i].params
        IN /\ op[i] = "search_stations" =>
                /\ p["input"] = args[i].query
                /\ p["maxNo"] = args[i].max_results
           /\ op[i] = "get_connections" =>
                /\ p["originExtId"] = args[i].origin_id
                /\ p["destExtId"] = args[i].destination_id
                /\ p["numTrips"] = args[i].num_trips
           /\ p = params[i]

\* C9: under any interleaving of calls, api_base and api_key never change,
\* each call sends the parameters built from its own arguments, and two
\* calls with the same arguments and the same upstream response end alike.
C9_CallsAreIndependent ==
    /\ [](\A i \in Calls : SentOwnParams(i))
    /\ [](\A i, j \in Calls :
            (/\ Done(i) /\ Done(j)
             /\ op[i] = op[j] /\ args[i] = args[j] /\ ctx[i] = ctx[j]
             /\ upstream[i] = upstream[j])
            => ret[i] = ret[j])
    /\ [][api_base' = api_base /\ api_key' = api_key]_vars

C9_Witness ==
    \E i, j \in Calls :
        /\ pc[i] = "awaiting" /\ op[i] = "search_stations"
        /\ Done(j) /\ op[j] = "get_connections" /\ ret[j].kind = "return"
        /\ request[i].params["input"] = "Hbf"
        /\ request[j].params["destExtId"] = "3000912"

\* C10: api_key is the constructor argument if not empty, else RMV_API_KEY
\* if set, else the placeholder; every GET carries accessId = api_key and
\* format = "json", whatever the caller put there.
C10_CredentialResolvedAndInjected ==
    /\ ctorArg # "" => api_key = ctorArg
    /\ (ctorArg = "" /\ env.set) => api_key = env.value
    /\ (ctorArg = "" /\ ~env.set)
       => api_key = "did you set the RMV_API_KEY environment variable?"
    /\ \A i \in Calls :
          gets[i] >= 1 =>
              /\ request[i].params["accessId"] = api_key
              /\ request[i].params["format"] = "json"
              /\ request[i].url = "https://www.rmv.de/hapi/" \o request[i].endpoint

C10_Witness ==
    \E i \in Calls :
        /\ Done(i) /\ op[i] = "rmv_api_call"
        /\ args[i].params["accessId"] = "caller-id"
        /\ ctorArg = "arg-key" /\ env.set /\ env.value = "env-key"
        /\ request[i].params["accessId"] = "arg-key"
        /\ request[i].params["format"] = "json"

====
